---- MODULE Spec2Model ----
(***************************************************************************)
(* fsp-gen (src/main.py): a dnsmasq rule list is turned into a dotted      *)
(* domain list and reconciled with a whitelist (prewhite.hostrules) and a  *)
(* blacklist (preblack.hostrules).                                         *)
(*                                                                         *)
(* A Python str is a sequence of one-character strings, so that strip(),   *)
(* startswith(), endswith() and concatenation are computed, not assumed.   *)
(* A text file is the sequence of its lines (without the line terminator). *)
(* The rule source is represented by the sequence of its server=/<t>/      *)
(* occurrences, each lying within one line.                                *)
(***************************************************************************)
EXTENDS Integers, Sequences, FiniteSets, TLC

VARIABLES
    pc,                   \* position of the process: start, extract, save, write, exit, crashed, ...
    run,                  \* number of the current invocation of the program
    argv,                 \* sys.argv[1:]
    mode,                 \* which extract function main() called: "url", "file", "none"
    src_arg,              \* url / input_file handed to the extract function
    output_file,          \* output path, a sequence of path components
    blFile,               \* preblack.hostrules: [exists, readable, lines]
    wlFile,               \* prewhite.hostrules: [exists, lines]
    source,               \* the rule source: [ok, matches]
    outFile,              \* the output target: [exists, lines]
    blacklist,            \* extract_domains_from_*: blacklist
    processed_domains,    \* extract_domains_from_*: processed_domains
    save_blacklist,       \* save_domains_with_prewhite: blacklist
    prewhite_domains_set, \* save_domains_with_prewhite: prewhite_domains_set
    all_domains,          \* save_domains_with_prewhite: all_domains
    success,              \* value returned by the extract function: "none", "True", "False"
    exit_status,          \* value handed to sys.exit: -1 while running
    usage_shown,          \* print_help() was called
    io,                   \* external operations performed in this run
    wl_emitted,           \* number of whitelist lines put into all_domains
    wl_failed,            \* reading the whitelist raised in this run
    bl_changed,           \* the blacklist file changed between two reads
    out_before,           \* content of the output target when the run started
    first_out,            \* content of the output target after the previous run
    first_clean,          \* the previous run read its whitelist without error
    domain,               \* is_blacklisted: argument domain
    matched               \* is_blacklisted: returned value

vars == << pc, run, argv, mode, src_arg, output_file, blFile, wlFile, source, outFile,
           blacklist, processed_domains, save_blacklist, prewhite_domains_set,
           all_domains, success, exit_status, usage_shown, io, wl_emitted, wl_failed,
           bl_changed, out_before, first_out, first_clean, domain, matched >>

----------------------------------------------------------------------------
(* Configuration constants, main.py lines 9-15 *)

DEFAULT_URL == "DEFAULT_URL"
OUTPUT_DIR == "dist"
DEFAULT_OUTPUT == << OUTPUT_DIR, "whitelist.hostrules" >>
SEPARATOR_COMMENT ==
    << "#", " ", "-", "-", "-", "-", "-", "-", "-",
       "a", "u", "t", "o", "g", "e", "n", "-", "-", "-", "-", "-", "-" >>
BLACKLIST_COMMENT_PREFIX == << "#", " ", "b", "l", "o", "c", "k", "e", "d", " " >>

----------------------------------------------------------------------------
(* str methods *)

None == << >>

startswith(s, p) == Len(p) <= Len(s) /\ SubSeq(s, 1, Len(p)) = p

endswith(s, p) == Len(p) <= Len(s) /\ SubSeq(s, Len(s) - Len(p) + 1, Len(s)) = p

IsSpace(c) == c = " "

RECURSIVE lstrip(_)
lstrip(s) == IF s # << >> /\ IsSpace(Head(s)) THEN lstrip(Tail(s)) ELSE s

RECURSIVE rstrip(_)
rstrip(s) ==
    IF s # << >> /\ IsSpace(s[Len(s)]) THEN rstrip(SubSeq(s, 1, Len(s) - 1)) ELSE s

strip(s) == rstrip(lstrip(s))

----------------------------------------------------------------------------
(* is_blacklisted, main.py lines 18-44 *)

DotPrefixed(s) == IF startswith(s, << "." >>) THEN s ELSE << "." >> \o s

RECURSIVE is_blacklisted_from(_, _, _)
is_blacklisted_from(d, bl, i) ==
    IF i > Len(bl) THEN None
    ELSE LET black == strip(bl[i]) IN
         IF black = << >> \/ startswith(black, << "#" >>)
         THEN is_blacklisted_from(d, bl, i + 1)
         ELSE LET b == DotPrefixed(black) IN
              IF d = b \/ endswith(d, b) THEN b
              ELSE is_blacklisted_from(d, bl, i + 1)

\* the domain is compared as given, without its leading dot
is_blacklisted_bare(dom, bl) == is_blacklisted_from(dom, bl, 1)

is_blacklisted(dom, bl) == is_blacklisted_from(DotPrefixed(dom), bl, 1)

----------------------------------------------------------------------------
(* load_blacklist, main.py lines 46-66 *)

IsPatternLine(l) == strip(l) # << >> /\ ~startswith(strip(l), << "#" >>)

load_blacklist(file) ==
    IF file.exists /\ file.readable
    THEN LET kept == SelectSeq(file.lines, IsPatternLine)
         IN [i \in 1..Len(kept) |-> strip(kept[i])]
    ELSE << >>

----------------------------------------------------------------------------
(* process_domain, main.py lines 68-89: the formatted line *)

process_domain(dom, bl) ==
    LET domain_with_dot == << "." >> \o dom IN
    IF bl # << >> /\ is_blacklisted(dom, bl) # None
    THEN BLACKLIST_COMMENT_PREFIX \o domain_with_dot
    ELSE domain_with_dot

----------------------------------------------------------------------------
(* Input spaces *)

MaxWhitelistLines == 2
MaxMatches == 2
MaxPatterns == 2
MaxPatternLen == 2
MaxDomainLen == 3
MaxArgs == 4
MaxRuns == 2

Seqs(S, n) == UNION { [1..k -> S] : k \in 0..n }

\* domain tokens the pattern server=/([^/]+)/ can capture
Tokens == { << "a" >>, << "b", ".", "a" >>, << ".", "a" >> }

\* lines of prewhite.hostrules
WhitelistLines == { << ".", "a" >>, << " ", "a", " " >>, << " " >>, SEPARATOR_COMMENT }

\* contents of preblack.hostrules
BlacklistContents ==
    { << << " ", "a", " " >> >>,
      << << "#", "a" >>, << "b", ".", "a" >> >>,
      << << ".", ".", "a" >>, << " " >> >> }

BlacklistFiles ==
    { [exists |-> FALSE, readable |-> FALSE, lines |-> << >>] }
    \cup { [exists |-> TRUE, readable |-> FALSE, lines |-> << << "a" >> >>] }
    \cup { [exists |-> TRUE, readable |-> TRUE, lines |-> c] : c \in BlacklistContents }

WhitelistFiles ==
    { [exists |-> FALSE, lines |-> << >>] }
    \cup { [exists |-> TRUE, lines |-> c] : c \in Seqs(WhitelistLines, MaxWhitelistLines) }

Sources ==
    { [ok |-> FALSE, matches |-> << >>] }
    \cup { [ok |-> TRUE, matches |-> m] : m \in Seqs(Tokens, MaxMatches) }

\* a document left in the output target by an earlier use
OldDocument == [exists |-> TRUE, lines |-> << << ".", "o" >> >>]

Args == { "--url", "--file", "x", "d/x" }

\* characters of the domains and of the blacklist lines given to is_blacklisted
DomainChars == { ".", "a", "b" }
PatternChars == { ".", "a" }
PatternLines ==
    Seqs(PatternChars, MaxPatternLen)
    \cup { << "#", "a" >>, << " ", "a", " " >>, << " " >> }

----------------------------------------------------------------------------
(* resolve_output_path, main.py lines 283-295 *)

PathOf(a) == IF a = "d/x" THEN << "d", "x" >> ELSE << a >>

dirname(p) == SubSeq(p, 1, Len(p) - 1)

resolve_output_path(filename) ==
    IF dirname(PathOf(filename)) = << >>
    THEN << OUTPUT_DIR >> \o PathOf(filename)
    ELSE PathOf(filename)

----------------------------------------------------------------------------
(* main, main.py lines 314-347 *)

OutputArg(a) == IF Len(a) <= 2 THEN DEFAULT_OUTPUT ELSE resolve_output_path(a[3])

CallExtract(m, s, o) ==
    /\ mode' = m
    /\ src_arg' = s
    /\ output_file' = o
    /\ pc' = "extract"
    /\ UNCHANGED << exit_status, usage_shown >>

Main ==
    /\ pc = "start"
    /\ IF Len(argv) = 0
       THEN CallExtract("url", DEFAULT_URL, DEFAULT_OUTPUT)
       ELSE IF Len(argv) = 1
       THEN CallExtract("url", DEFAULT_URL, resolve_output_path(argv[1]))
       ELSE IF argv[1] = "--url" /\ Len(argv) >= 2
       THEN CallExtract("url", argv[2], OutputArg(argv))
       ELSE IF argv[1] = "--file" /\ Len(argv) >= 2
       THEN CallExtract("file", argv[2], OutputArg(argv))
       ELSE /\ usage_shown' = TRUE
            /\ exit_status' = 1
            /\ pc' = "exit"
            /\ UNCHANGED << mode, src_arg, output_file >>
    /\ UNCHANGED << run, argv, blFile, wlFile, source, outFile, blacklist,
                    processed_domains, save_blacklist, prewhite_domains_set,
                    all_domains, success, io, wl_emitted, wl_failed, bl_changed,
                    out_before, first_out, first_clean, domain, matched >>

----------------------------------------------------------------------------
(* extract_domains_from_url, main.py lines 91-135, and                    *)
(* extract_domains_from_file, main.py lines 137-183, up to the call of    *)
(* save_domains_with_prewhite                                              *)

Return(value) ==
    /\ success' = value
    /\ exit_status' = IF value = "True" THEN 0 ELSE 1
    /\ pc' = "exit"

Extract ==
    /\ pc = "extract"
    /\ blacklist' = load_blacklist(blFile)
    /\ io' = io \cup { "load_blacklist", IF mode = "url" THEN "fetch" ELSE "read_input" }
    /\ IF ~source.ok \/ source.matches = << >>
       THEN /\ Return("False")
            /\ UNCHANGED processed_domains
       ELSE /\ processed_domains' =
                   [i \in 1..Len(source.matches) |->
                       process_domain(source.matches[i], load_blacklist(blFile))]
            /\ pc' = "save"
            /\ UNCHANGED << success, exit_status >>
    /\ UNCHANGED << run, argv, mode, src_arg, output_file, blFile, wlFile, source,
                    outFile, save_blacklist, prewhite_domains_set, all_domains,
                    usage_shown, wl_emitted, wl_failed, bl_changed, out_before,
                    first_out, first_clean, domain, matched >>

----------------------------------------------------------------------------
(* save_domains_with_prewhite, main.py lines 185-263: all_domains is built *)

IsDomainEntry(line) == line # << >> /\ ~startswith(line, << "#" >>)

IsDemoted(line, bl) == bl # << >> /\ is_blacklisted(line, bl) # None

\* a matching entry is kept as it is
prewhite_line_plain(raw, bl) == strip(raw)

\* what one whitelist line appends to prewhite_domains
prewhite_line(raw, bl) ==
    LET line == strip(raw) IN
    IF IsDomainEntry(line) /\ IsDemoted(line, bl)
    THEN BLACKLIST_COMMENT_PREFIX \o line
    ELSE line

\* prewhite_domains_set after the first k lines were processed
prewhite_set(lines, k, bl) ==
    { strip(lines[i]) : i \in { j \in 1..k : /\ IsDomainEntry(strip(lines[j]))
                                             /\ ~IsDemoted(strip(lines[j]), bl) } }

\* nothing is skipped as a whitelist duplicate
filter_domains_all(domains, seen) == domains

\* the kept domains come out last first
filter_domains_reversed(domains, seen) ==
    LET Keep(d) == startswith(d, BLACKLIST_COMMENT_PREFIX) \/ d \notin seen
        kept == SelectSeq(domains, Keep)
    IN [i \in 1..Len(kept) |-> kept[Len(kept) + 1 - i]]

filter_domains(domains, seen) ==
    LET Keep(d) == startswith(d, BLACKLIST_COMMENT_PREFIX) \/ d \notin seen
    IN SelectSeq(domains, Keep)

\* the separator is left out when there is no whitelist line
assemble_if_whitelist(head, filtered) ==
    IF head = << >> THEN filtered ELSE head \o << SEPARATOR_COMMENT >> \o filtered

\* all_domains: the whitelist lines, the separator, the filtered domains
assemble(head, filtered) == head \o << SEPARATOR_COMMENT >> \o filtered

\* k lines are read; failed: the read raised after them
Assemble(k, failed) ==
    LET bl == load_blacklist(blFile)
        prewhite_domains == [i \in 1..k |-> prewhite_line(wlFile.lines[i], bl)]
        head == IF failed THEN << >> ELSE prewhite_domains
        seen == prewhite_set(wlFile.lines, k, bl)
    IN /\ save_blacklist' = bl
       /\ prewhite_domains_set' = seen
       /\ all_domains' = assemble(head, filter_domains(processed_domains, seen))
       /\ wl_emitted' = Len(head)
       /\ wl_failed' = failed

SaveAssemble ==
    /\ pc = "save"
    /\ IF wlFile.exists
       THEN \/ Assemble(Len(wlFile.lines), FALSE)
            \/ \E k \in 0..Len(wlFile.lines) : Assemble(k, TRUE)
       ELSE Assemble(0, FALSE)
    /\ io' = io \cup { "load_blacklist" }
                \cup (IF wlFile.exists THEN { "read_whitelist" } ELSE { })
    /\ pc' = "write"
    /\ UNCHANGED << run, argv, mode, src_arg, output_file, blFile, wlFile, source,
                    outFile, blacklist, processed_domains, success, exit_status,
                    usage_shown, bl_changed, out_before, first_out, first_clean,
                    domain, matched >>

----------------------------------------------------------------------------
(* save_domains_with_prewhite, main.py lines 265-281: the document is written *)

WriteUnchanged ==
    UNCHANGED << run, argv, mode, src_arg, output_file, blFile, wlFile, source,
                 blacklist, processed_domains, save_blacklist, prewhite_domains_set,
                 all_domains, usage_shown, wl_emitted, wl_failed, bl_changed,
                 out_before, first_out, first_clean, domain, matched >>

\* os.makedirs raises: the exception leaves main() and the interpreter exits with 1
MakedirsRaises ==
    /\ pc = "write"
    /\ io' = io \cup { "makedirs" }
    /\ pc' = "crashed"
    /\ exit_status' = 1
    /\ UNCHANGED << outFile, success >>
    /\ WriteUnchanged

\* open(output_file, 'w') raises: nothing is truncated
OpenRaises ==
    /\ pc = "write"
    /\ io' = io \cup { "makedirs", "open" }
    /\ Return("False")
    /\ UNCHANGED outFile
    /\ WriteUnchanged

\* open truncated the target, then write or close raises with k lines on disk
WriteRaises ==
    /\ pc = "write"
    /\ io' = io \cup { "makedirs", "open", "write" }
    /\ \E k \in 0..(Len(all_domains) - 1) :
          outFile' = [exists |-> TRUE, lines |-> SubSeq(all_domains, 1, k)]
    /\ Return("False")
    /\ WriteUnchanged

\* the target is opened for appending
WriteAppends ==
    /\ pc = "write"
    /\ io' = io \cup { "makedirs", "open", "write" }
    /\ outFile' = [exists |-> TRUE, lines |-> outFile.lines \o all_domains]
    /\ Return("True")
    /\ WriteUnchanged

WriteSucceeds ==
    /\ pc = "write"
    /\ io' = io \cup { "makedirs", "open", "write" }
    /\ outFile' = [exists |-> TRUE, lines |-> all_domains]
    /\ Return("True")
    /\ WriteUnchanged

SaveWrite == MakedirsRaises \/ OpenRaises \/ WriteRaises \/ WriteSucceeds

----------------------------------------------------------------------------
(* The environment *)

\* preblack.hostrules is removed between load_blacklist() of the extract
\* function (line 104 / 150) and load_blacklist() of save_domains_with_prewhite
\* (line 198)
RemoveBlacklist ==
    /\ pc = "save"
    /\ blFile.exists
    /\ blFile' = [exists |-> FALSE, readable |-> FALSE, lines |-> << >>]
    /\ bl_changed' = TRUE
    /\ UNCHANGED << pc, run, argv, mode, src_arg, output_file, wlFile, source, outFile,
                    blacklist, processed_domains, save_blacklist, prewhite_domains_set,
                    all_domains, success, exit_status, usage_shown, io, wl_emitted,
                    wl_failed, out_before, first_out, first_clean, domain, matched >>

NoDocument == [exists |-> FALSE, lines |-> << >>]

\* the program is started again with the same arguments and the same files
Rerun ==
    /\ pc = "exit"
    /\ success = "True"
    /\ run < MaxRuns
    /\ run' = run + 1
    /\ pc' = "start"
    /\ mode' = "none"
    /\ src_arg' = "none"
    /\ output_file' = << >>
    /\ blacklist' = << >>
    /\ processed_domains' = << >>
    /\ save_blacklist' = << >>
    /\ prewhite_domains_set' = { }
    /\ all_domains' = << >>
    /\ success' = "none"
    /\ exit_status' = -1
    /\ usage_shown' = FALSE
    /\ io' = { }
    /\ wl_emitted' = 0
    /\ wl_failed' = FALSE
    /\ out_before' = outFile
    /\ first_out' = outFile
    /\ first_clean' = ~wl_failed
    /\ UNCHANGED << argv, blFile, wlFile, source, outFile, bl_changed, domain, matched >>

----------------------------------------------------------------------------
(* Specifications *)

InitWith(argvs, bls, wls, srcs, docs) ==
    /\ pc = "start"
    /\ run = 1
    /\ argv \in argvs
    /\ mode = "none"
    /\ src_arg = "none"
    /\ output_file = << >>
    /\ blFile \in bls
    /\ wlFile \in wls
    /\ source \in srcs
    /\ outFile \in docs
    /\ blacklist = << >>
    /\ processed_domains = << >>
    /\ save_blacklist = << >>
    /\ prewhite_domains_set = { }
    /\ all_domains = << >>
    /\ success = "none"
    /\ exit_status = -1
    /\ usage_shown = FALSE
    /\ io = { }
    /\ wl_emitted = 0
    /\ wl_failed = FALSE
    /\ bl_changed = FALSE
    /\ out_before = outFile
    /\ first_out = NoDocument
    /\ first_clean = FALSE
    /\ domain = << >>
    /\ matched = None

Init == InitWith({ << >> }, BlacklistFiles, WhitelistFiles, Sources, { OldDocument })

Next == Main \/ Extract \/ RemoveBlacklist \/ SaveAssemble \/ SaveWrite \/ Rerun

Spec == Init /\ [][Next]_vars

\* every argument list, few files
CliBlacklistFiles == { f \in BlacklistFiles : f.lines \in { << >>, << << " ", "a", " " >> >> } }
CliWhitelistFiles == { f \in WhitelistFiles : Len(f.lines) = 0 }
CliSources == { s \in Sources : Len(s.matches) <= 1 }

InitCli == InitWith(Seqs(Args, MaxArgs), CliBlacklistFiles, CliWhitelistFiles,
                    CliSources, { NoDocument, OldDocument })

SpecCli == InitCli /\ [][Next]_vars

----------------------------------------------------------------------------
(* is_blacklisted applied to the list load_blacklist returns *)

MatchUnchanged ==
    UNCHANGED << run, argv, mode, src_arg, output_file, blFile, wlFile, source,
                 outFile, processed_domains, save_blacklist, prewhite_domains_set,
                 all_domains, success, exit_status, usage_shown, io, wl_emitted,
                 wl_failed, bl_changed, out_before, first_out, first_clean >>

MatchLoad ==
    /\ pc = "match_load"
    /\ blacklist' = load_blacklist(blFile)
    /\ pc' = "match_call"
    /\ UNCHANGED << domain, matched >>
    /\ MatchUnchanged

MatchCall ==
    /\ pc = "match_call"
    /\ matched' = is_blacklisted(domain, blacklist)
    /\ pc' = "matched"
    /\ UNCHANGED << domain, blacklist >>
    /\ MatchUnchanged

InitMatch ==
    /\ pc = "match_load"
    /\ run = 1
    /\ argv = << >>
    /\ mode = "none"
    /\ src_arg = "none"
    /\ output_file = << >>
    /\ blFile \in { [exists |-> TRUE, readable |-> TRUE, lines |-> c] :
                         c \in Seqs(PatternLines, MaxPatterns) }
    /\ wlFile = [exists |-> FALSE, lines |-> << >>]
    /\ source = [ok |-> FALSE, matches |-> << >>]
    /\ outFile = NoDocument
    /\ blacklist = << >>
    /\ processed_domains = << >>
    /\ save_blacklist = << >>
    /\ prewhite_domains_set = { }
    /\ all_domains = << >>
    /\ success = "none"
    /\ exit_status = -1
    /\ usage_shown = FALSE
    /\ io = { }
    /\ wl_emitted = 0
    /\ wl_failed = FALSE
    /\ bl_changed = FALSE
    /\ out_before = NoDocument
    /\ first_out = NoDocument
    /\ first_clean = FALSE
    /\ domain \in Seqs(DomainChars, MaxDomainLen)
    /\ matched = None

NextMatch == MatchLoad \/ MatchCall

SpecMatch == InitMatch /\ [][NextMatch]_vars

----------------------------------------------------------------------------
(* Properties *)

Count(seq, x) == Cardinality({ i \in 1..Len(seq) : seq[i] = x })

Written == pc = "exit" /\ success = "True"

\* P is the whole of D or what D ends with
SuffixOf(P, D) == \E k \in 1..(Len(D) + 1) : SubSeq(D, k, Len(D)) = P

\* C1: is_blacklisted(D, patterns) returns a match exactly when some pattern,
\* both dot-prefixed, equals D or is a suffix of D, and None otherwise; a
\* pattern matches itself and its subdomains, and never a domain that ends in
\* the pattern's characters without a label boundary before them.
C1_SuffixMatch ==
    pc = "matched" =>
        LET D == DotPrefixed(domain)
            hits == { i \in 1..Len(blacklist) : SuffixOf(DotPrefixed(blacklist[i]), D) }
            n == Len(domain)
        IN /\ (matched # None) <=> (hits # { })
           /\ matched # None =>
                  \E i \in hits : /\ matched = DotPrefixed(blacklist[i])
                                  /\ \A j \in hits : i <= j
           /\ \A i \in 1..Len(blacklist) :
                  LET p == blacklist[i]
                      m == Len(p)
                  IN /\ domain = p => matched # None
                     /\ (n > m + 1 /\ SubSeq(domain, n - m, n) = << "." >> \o p)
                            => matched # None
                     /\ ( /\ Len(blacklist) = 1
                          /\ p[1] # "."
                          /\ n > m
                          /\ SubSeq(domain, n - m + 1, n) = p
                          /\ domain[n - m] # "." ) => matched = None

\* a subdomain is matched by the second pattern of the list
C1_Witness ==
    /\ pc = "matched"
    /\ domain = << "b", ".", "a" >>
    /\ blacklist = << << ".", "." >>, << "a" >> >>
    /\ matched = << ".", "a" >>

\* C2 as stated, for a bare domain d: a token d that matches no blacklist
\* pattern and stands in the whitelist, written as d or as .d, has no line .d
\* after the separator.
C2_WhitelistEitherForm ==
    (Written /\ ~wl_failed) =>
        \A t \in 1..Len(source.matches) :
            LET d == source.matches[t] IN
            ( /\ d[1] # "."
              /\ is_blacklisted(d, blacklist) = None
              /\ is_blacklisted(d, save_blacklist) = None
              /\ \E i \in 1..Len(wlFile.lines) :
                     strip(wlFile.lines[i]) \in { d, << "." >> \o d } )
            => \A j \in (wl_emitted + 2)..Len(outFile.lines) :
                   outFile.lines[j] # << "." >> \o d

\* C2, amended: when the whitelist is read to its end and holds an entry whose
\* text is exactly .d and which matches no blacklist pattern, no line after the
\* separator equals .d, however often d was extracted.
C2_WhitelistDottedForm ==
    (Written /\ ~wl_failed) =>
        \A t \in 1..Len(source.matches) :
            LET d == source.matches[t] IN
            ( /\ is_blacklisted(d, blacklist) = None
              /\ is_blacklisted(d, save_blacklist) = None
              /\ \E i \in 1..Len(wlFile.lines) :
                     /\ strip(wlFile.lines[i]) = << "." >> \o d
                     /\ is_blacklisted(strip(wlFile.lines[i]), save_blacklist) = None )
            => \A j \in (wl_emitted + 2)..Len(outFile.lines) :
                   outFile.lines[j] # << "." >> \o d

\* the token a is extracted twice and the whitelist holds .a
C2_Witness ==
    /\ Written
    /\ ~wl_failed
    /\ source.matches = << << "a" >>, << "a" >> >>
    /\ wlFile.lines = << << ".", "a" >> >>
    /\ blacklist = << >>
    /\ outFile.lines = << << ".", "a" >>, SEPARATOR_COMMENT >>

\* C3: a whitelist domain entry that matches a blacklist pattern is written as
\* "# blocked " + its text at the position it had in the whitelist; every
\* whitelist line gives one line before the separator, and a demoted entry is
\* not in the deduplication set.
C3_DemotedInPlace ==
    (Written /\ wlFile.exists /\ ~wl_failed) =>
        LET n == Len(wlFile.lines)
            out == outFile.lines
        IN /\ Len(out) > n
           /\ out[n + 1] = SEPARATOR_COMMENT
           /\ \A j \in (n + 2)..Len(out) :
                  \/ startswith(out[j], << "." >>)
                  \/ startswith(out[j], BLACKLIST_COMMENT_PREFIX \o << "." >>)
           /\ \A i \in 1..n :
                  LET text == strip(wlFile.lines[i]) IN
                  IF /\ text # << >>
                     /\ text[1] # "#"
                     /\ is_blacklisted(text, save_blacklist) # None
                  THEN /\ out[i] = BLACKLIST_COMMENT_PREFIX \o text
                       /\ text \notin prewhite_domains_set
                  ELSE out[i] = text

\* the second whitelist line is demoted, the first one is kept
C3_Witness ==
    /\ Written
    /\ ~wl_failed
    /\ wlFile.lines = << SEPARATOR_COMMENT, << " ", "a", " " >> >>
    /\ save_blacklist = << << "a" >> >>
    /\ outFile.lines[2] = BLACKLIST_COMMENT_PREFIX \o << "a" >>
    /\ outFile.lines[3] = SEPARATOR_COMMENT

\* C4 as stated: the written output holds the separator line exactly once.
C4_SeparatorOnce == Written => Count(outFile.lines, SEPARATOR_COMMENT) = 1

\* C4, amended: the separator is appended once, right after the whitelist
\* lines; the output holds it once more for every emitted whitelist line whose
\* text is the separator, hence exactly once when there is no such line.
C4_SeparatorAppendedOnce ==
    Written =>
        LET out == outFile.lines
            copies == IF wlFile.exists /\ ~wl_failed
                      THEN { i \in 1..Len(wlFile.lines) :
                                 strip(wlFile.lines[i]) = SEPARATOR_COMMENT }
                      ELSE { }
            n == IF wlFile.exists /\ ~wl_failed THEN Len(wlFile.lines) ELSE 0
        IN /\ Len(out) > n
           /\ out[n + 1] = SEPARATOR_COMMENT
           /\ Count(out, SEPARATOR_COMMENT) = 1 + Cardinality(copies)
           /\ \A j \in (n + 2)..Len(out) : out[j] # SEPARATOR_COMMENT

\* no whitelist file: the document starts with the only separator
C4_Witness ==
    /\ Written
    /\ ~wlFile.exists
    /\ outFile.lines[1] = SEPARATOR_COMMENT
    /\ Len(outFile.lines) = 3
    /\ Count(outFile.lines, SEPARATOR_COMMENT) = 1

\* C5: the whitelist lines come first, in file order, then the separator,
\* then the lines of the extracted tokens in source order, one per occurrence
\* of a token, a token being left out only as a whitelist duplicate.
C5_Ordering ==
    Written =>
        LET out == outFile.lines
            n == IF wlFile.exists /\ ~wl_failed THEN Len(wlFile.lines) ELSE 0
            tail == SubSeq(out, n + 2, Len(out))
            m == source.matches
            Nth(S, j) == CHOOSE x \in S : Cardinality({ y \in S : y < x }) = j - 1
        IN /\ Len(out) > n
           /\ out[n + 1] = SEPARATOR_COMMENT
           /\ \A i \in 1..n :
                  out[i] \in { strip(wlFile.lines[i]),
                               BLACKLIST_COMMENT_PREFIX \o strip(wlFile.lines[i]) }
           /\ \E S \in SUBSET (1..Len(m)) :
                  /\ Cardinality(S) = Len(tail)
                  /\ \A j \in 1..Len(tail) :
                         tail[j] \in { << "." >> \o m[Nth(S, j)],
                                       BLACKLIST_COMMENT_PREFIX \o << "." >> \o m[Nth(S, j)] }
                  /\ \A t \in (1..Len(m)) \ S :
                         \E i \in 1..Len(wlFile.lines) :
                             strip(wlFile.lines[i]) = << "." >> \o m[t]

\* a blank whitelist line, the separator, a blocked and a plain line in source order
C5_Witness ==
    /\ Written
    /\ wlFile.lines = << << " " >> >>
    /\ source.matches = << << "b", ".", "a" >>, << "a" >> >>
    /\ outFile.lines = << << >>, SEPARATOR_COMMENT,
                          BLACKLIST_COMMENT_PREFIX \o << ".", "b", ".", "a" >>,
                          << ".", "a" >> >>

\* C6: a run either reports success with the whole document in the target, or
\* reports failure with the target as it was before the run; no failure leaves
\* main() as an uncaught error.
C6_AllOrNothing ==
    /\ pc # "crashed"
    /\ Written => outFile = [exists |-> TRUE, lines |-> all_domains]
    /\ (pc = "exit" /\ success = "False") => outFile = out_before

\* C7: when reading the whitelist fails, before the first line or after some
\* lines, the document is the one an empty whitelist gives: the separator,
\* then every processed domain; an unreadable blacklist is an empty list.
C7_FailedReadAsEmpty ==
    /\ (pc = "write" /\ wl_failed)
           => all_domains = << SEPARATOR_COMMENT >> \o processed_domains
    /\ (pc = "save" /\ blFile.exists /\ ~blFile.readable) => blacklist = << >>

\* C8: a second run with the same whitelist, blacklist and extracted domains
\* leaves in the target exactly what the first run left, whatever the target
\* held before each run.
C8_Idempotent ==
    (run > 1 /\ Written /\ ~bl_changed /\ ~wl_failed /\ first_clean)
        => outFile = first_out

\* the second run has overwritten a document with whitelist and generated lines
C8_Witness ==
    /\ run = 2
    /\ Written
    /\ ~bl_changed /\ ~wl_failed /\ first_clean
    /\ wlFile.exists
    /\ Len(wlFile.lines) = 1
    /\ Len(outFile.lines) = 4
    /\ outFile = first_out
    /\ out_before = first_out

\* the argument lists C9 names as accepted
IsModeFlag(a) == a \in { "--url", "--file" }

C9_Accepted(a) ==
    \/ Len(a) = 0
    \/ Len(a) = 1 /\ ~IsModeFlag(a[1])
    \/ Len(a) \in { 2, 3 } /\ IsModeFlag(a[1])

\* C9: every argument list other than (), (output), (flag, source) and
\* (flag, source, output) prints the usage, exits with 1 and performs no fetch,
\* read or write; an accepted list exits with 0 exactly when the pipeline
\* reported success.
C9_CliDispatch ==
    /\ (pc # "start" /\ ~C9_Accepted(argv))
           => /\ usage_shown
              /\ exit_status = 1
              /\ io = { }
              /\ outFile = out_before
    /\ (pc = "exit" /\ C9_Accepted(argv))
           => /\ ~usage_shown
              /\ (exit_status = 0 <=> success = "True")

\* C10: when the blacklist file is the same at both reads, no effective line
\* of the written document (non-blank, not starting with #) matches a loaded
\* blacklist pattern.
C10_NoBlacklistedEffectiveLine ==
    (Written /\ ~bl_changed) =>
        \A i \in 1..Len(outFile.lines) :
            LET line == outFile.lines[i] IN
            (line # << >> /\ line[1] # "#")
                => /\ is_blacklisted(line, blacklist) = None
                   /\ is_blacklisted(line, save_blacklist) = None

====
